---- MODULE Spec2Model ----
(***************************************************************************)
(* Model of the Log class of lib.classes.log (LHHegland/logging): the      *)
(* handlers Log.setup attaches to the process-wide root logger, the        *)
(* records the leveled emit methods send through them, the header, the     *)
(* footer and the termination-time copy of the log file, and the elapsed   *)
(* string of _Timestamps._get_elapsed computed in IEEE-754 binary64.       *)
(***************************************************************************)
EXTENDS Integers, Sequences, FiniteSets, TLC

(***************************************************************************)
(* Binary64 arithmetic.  A float is [neg, m, e]: the sign, the significand *)
(* (a natural number written as a sequence of base-1024 limbs, the most    *)
(* significant first, no leading zero limb, <<>> for zero) and the         *)
(* exponent of its last bit: the value is (-1)^neg * m * 2^e.  Every       *)
(* operation computes the exact result and rounds it to 53 bits, ties to   *)
(* even, as the hardware does.  (The durations of a run are far from the   *)
(* overflow and subnormal ranges.)                                         *)
(***************************************************************************)
MantissaBits == 53

LimbBits == 10

Base == 2 ^ LimbBits

\* Zero limbs appended to the dividend of a true division before it is
\* divided: 80 quotient bits, more than the 53 kept plus those of 10^6.
DivShiftLimbs == 8

Zeros(n) == [i \in 1..n |-> 0]

RECURSIVE NatToLimbs(_)
NatToLimbs(n) ==
    IF n = 0 THEN <<>> ELSE Append(NatToLimbs(n \div Base), n % Base)

RECURSIVE LimbsToNat(_, _)
LimbsToNat(b, i) == IF i = 0 THEN 0 ELSE Base * LimbsToNat(b, i - 1) + b[i]

StripLimbs(b) ==
    LET nz == {i \in 1..Len(b) : b[i] # 0}
    IN  IF nz = {} THEN <<>>
        ELSE SubSeq(b, CHOOSE i \in nz : \A j \in nz : i <= j, Len(b))

PadLimbs(b, n) == Zeros(n - Len(b)) \o b

\* a + b + c for limb strings of one length, from the last limb (index i)
\* up; acc holds the limbs already computed.
RECURSIVE AddLimbs(_, _, _, _, _)
AddLimbs(a, b, i, c, acc) ==
    IF i = 0 THEN (IF c = 1 THEN <<1>> \o acc ELSE acc)
    ELSE LET s == a[i] + b[i] + c
         IN  AddLimbs(a, b, i - 1, s \div Base, <<s % Base>> \o acc)

\* a - b - c for limb strings of one length with a >= b.
RECURSIVE SubLimbs(_, _, _, _, _)
SubLimbs(a, b, i, c, acc) ==
    IF i = 0 THEN acc
    ELSE LET s == a[i] - b[i] - c
         IN  IF s < 0 THEN SubLimbs(a, b, i - 1, 1, <<s + Base>> \o acc)
             ELSE SubLimbs(a, b, i - 1, 0, <<s>> \o acc)

\* a < b for limb strings of one length.
LessLimbs(a, b) ==
    \E i \in 1..Len(a) : a[i] < b[i] /\ \A j \in 1..(i - 1) : a[j] = b[j]

\* a * k for a natural k < 2^20.
RECURSIVE MulLimbs(_, _, _, _, _)
MulLimbs(a, k, i, c, acc) ==
    IF i = 0 THEN NatToLimbs(c) \o acc
    ELSE LET t == a[i] * k + c
         IN  MulLimbs(a, k, i - 1, t \div Base, <<t % Base>> \o acc)

\* Long division of a by a natural k < 2^20: quotient limbs and remainder.
RECURSIVE DivLimbs(_, _, _, _, _)
DivLimbs(a, k, i, rem, acc) ==
    IF i > Len(a) THEN [q |-> acc, r |-> rem]
    ELSE LET t == Base * rem + a[i]
         IN  DivLimbs(a, k, i + 1, t % k, Append(acc, t \div k))

\* The number of bits of a limb string without leading zero limbs.
BitLength(b) ==
    IF b = <<>> THEN 0
    ELSE LimbBits * (Len(b) - 1)
         + (CHOOSE k \in 1..LimbBits : 2 ^ (k - 1) <= b[1] /\ b[1] < 2 ^ k)

\* b * 2^s.
ShiftLeft(b, s) ==
    MulLimbs(b, 2 ^ (s % LimbBits), Len(b), 0, <<>>) \o Zeros(s \div LimbBits)

\* b \div 2^s, and whether a nonzero remainder was dropped.
ShiftRight(b, s) ==
    LET whole == s \div LimbBits
        n     == Len(b)
    IN  IF whole >= n
        THEN [q |-> <<>>, sticky |-> \E i \in 1..n : b[i] # 0]
        ELSE LET d == DivLimbs(SubSeq(b, 1, n - whole), 2 ^ (s % LimbBits),
                               1, 0, <<>>)
             IN  [q |-> StripLimbs(d.q),
                  sticky |-> d.r # 0 \/ \E i \in (n - whole + 1)..n : b[i] # 0]

\* The exact value limbs * 2^e (plus a nonzero part below the last bit when
\* sticky) rounded to the nearest float, ties to even.
RoundF(neg, limbs, e, sticky) ==
    LET b == StripLimbs(limbs)
        n == BitLength(b)
    IN  IF n <= MantissaBits THEN [neg |-> neg, m |-> b, e |-> e]
        ELSE LET sh   == ShiftRight(b, n - MantissaBits - 1)
                 half == DivLimbs(sh.q, 2, 1, 0, <<>>)
                 keep == StripLimbs(half.q)
                 rest == sticky \/ sh.sticky
                 up   == half.r = 1 /\ (rest \/ keep[Len(keep)] % 2 = 1)
                 one  == Append(Zeros(Len(keep) - 1), 1)
             IN  [neg |-> neg,
                  m   |-> IF up THEN AddLimbs(keep, one, Len(keep), 0, <<>>)
                          ELSE keep,
                  e   |-> e + (n - MantissaBits)]

FloatOfInt(n) ==
    [neg |-> n < 0, m |-> NatToLimbs(IF n < 0 THEN -n ELSE n), e |-> 0]

\* x + y rounded (float.__add__).
FAdd(x, y) ==
    LET e0 == IF x.e < y.e THEN x.e ELSE y.e
        ax == ShiftLeft(x.m, x.e - e0)
        ay == ShiftLeft(y.m, y.e - e0)
        n  == IF Len(ax) < Len(ay) THEN Len(ay) ELSE Len(ax)
        px == PadLimbs(ax, n)
        py == PadLimbs(ay, n)
    IN  IF x.neg = y.neg
        THEN RoundF(x.neg, AddLimbs(px, py, n, 0, <<>>), e0, FALSE)
        ELSE IF LessLimbs(px, py)
        THEN RoundF(y.neg, SubLimbs(py, px, n, 0, <<>>), e0, FALSE)
        ELSE RoundF(x.neg /\ px # py, SubLimbs(px, py, n, 0, <<>>), e0, FALSE)

\* x - y rounded (float.__sub__).
FSub(x, y) == FAdd(x, [y EXCEPT !.neg = ~y.neg])

\* x * k rounded, k a natural < 2^20 (float.__mul__ with an int operand).
FMulInt(x, k) == RoundF(x.neg, MulLimbs(x.m, k, Len(x.m), 0, <<>>), x.e, FALSE)

\* a / k rounded, for naturals a and k < 2^20 (int.__truediv__).
IntTrueDiv(a, k) ==
    LET d == DivLimbs(NatToLimbs(a) \o Zeros(DivShiftLimbs), k, 1, 0, <<>>)
    IN  RoundF(FALSE, d.q, -(LimbBits * DivShiftLimbs), d.r # 0)

\* int(x): truncation toward zero.
FTrunc(x) ==
    LET mag == IF x.e >= 0 THEN ShiftLeft(x.m, x.e)
               ELSE ShiftRight(x.m, -x.e).q
        v   == LimbsToNat(mag, Len(mag))
    IN  IF x.neg THEN -v ELSE v

(***************************************************************************)
(* _Timestamps                                                             *)
(***************************************************************************)
MicrosPerSecond == 1000000

\* (self.end - self.start).total_seconds(): microseconds / 10^6.
total_seconds(us) == IntTrueDiv(us, MicrosPerSecond)

\* _Timestamps._get_elapsed for end - start = us microseconds; the four
\* numbers of the string f'{m}m {s}s {ms}ms {us}us'.
\* elapsed_seconds // 60 is the exact floor of the quotient, which is the
\* floor of the integer part divided by 60.
_get_elapsed(us) ==
    LET elapsed_seconds    == total_seconds(us)
        whole_minutes      == FTrunc(elapsed_seconds) \div 60
        included_1         == 60 * whole_minutes
        whole_seconds      == FTrunc(FSub(elapsed_seconds, FloatOfInt(included_1)))
        included_2         == included_1 + whole_seconds
        whole_milliseconds ==
            FTrunc(FMulInt(FSub(elapsed_seconds, FloatOfInt(included_2)), 1000))
        included_3         ==
            FAdd(FloatOfInt(included_2), IntTrueDiv(whole_milliseconds, 1000))
        whole_microseconds ==
            FTrunc(FMulInt(FSub(elapsed_seconds, included_3), 1000000))
    IN  [m  |-> whole_minutes, s |-> whole_seconds,
         ms |-> whole_milliseconds, us |-> whole_microseconds]

(***************************************************************************)
(* Bounds of the model.                                                    *)
(***************************************************************************)
\* Log objects constructed in one process.
MaxSessions == 2

\* Records sent by the caller (the header, the notice and the footer of a
\* session are sent by the Log object itself and do not count).
MaxEmits == 3

(***************************************************************************)
(* Values.  A path is the sequence of its components ('' is <<>>), an      *)
(* optional value is None or Some(v).                                      *)
(***************************************************************************)
None == <<>>

Some(v) == <<v>>

\* The levels of the logging module.
DEBUG == 10

INFO == 20

WARNING == 30

ERROR == 40

CRITICAL == 50

\* Levels a module may pass to Logger.log besides the five named ones.
OtherLevels == {5, 15, 35}

\* logging.getLevelName.
getLevelName(levelno) ==
    CASE levelno = DEBUG    -> "DEBUG"
      [] levelno = INFO     -> "INFO"
      [] levelno = WARNING  -> "WARNING"
      [] levelno = ERROR    -> "ERROR"
      [] levelno = CRITICAL -> "CRITICAL"
      [] OTHER              -> "Level " \o ToString(levelno)

\* The __file__ of the top-level modules that construct a Log.
ModuleFiles == {<<"A", "app.py">>, <<"B", "tool.py">>}

Stems == {"app", "tool"}

\* os.path.dirname, os.path.basename, os.path.splitext, os.path.join.
dirname(path) == SubSeq(path, 1, Len(path) - 1)

basename(path) == path[Len(path)]

splitext(name) ==
    CHOOSE r \in Stems \X {".py", ".log"} : r[1] \o r[2] = name

join(dirpath, name) == Append(dirpath, name)

\* The directories of the initial file system: the source directories, of
\* which B holds a logs directory and A does not, a writable directory F
\* and a directory RO in which no file can be created.  No directory M
\* exists (so M/x has no parent), and no N (whose parent, the working
\* directory, exists).
InitialDirs == {<<"A">>, <<"B">>, <<"B", "logs">>, <<"F">>, <<"RO">>}

ReadOnlyDirs == {<<"RO">>}

\* The arguments terminate is called with besides the session's own logs
\* directory.
FinalArguments ==
    {None, Some(<<>>), Some(<<"F">>), Some(<<"RO">>), Some(<<"M", "x">>),
     Some(<<"N">>)}

\* The time that passes before a call reads the clock, in microseconds.
ClockSteps == {0, 1000000}

(***************************************************************************)
(* State.                                                                  *)
(***************************************************************************)
VARIABLES
    now,        \* the clock: microseconds since the process started
    dirs,       \* the directories that exist
    files,      \* path -> the renderings flushed to that file, in order
    console,    \* the renderings flushed to sys.stderr, in order
    rootLevel,  \* the level of the root logger, logging.getLogger()
    handlers,   \* the handlers of the root logger, in addHandler order
    emitted,    \* the LogRecords created so far, in order
    sessions,   \* the Log objects, in construction order
    last        \* the last call made and how it ended

vars == <<now, dirs, files, console, rootLevel, handlers, emitted,
          sessions, last>>

(***************************************************************************)
(* _ExecInfo                                                               *)
(***************************************************************************)
\* _ExecInfo.set_info on a fresh _ExecInfo (whose _Timestamps.__post_init__
\* took the start time).
set_info(module_filepathname, t) ==
    [initial         |-> dirname(module_filepathname),
     module_basename |-> splitext(basename(module_filepathname))[1],
     start           |-> t,
     end             |-> None,
     final           |-> None]

\* self._timestamps.start.strftime('%Y%m%d%H%M%S'): the whole seconds.
strftime(t) == ToString(t \div MicrosPerSecond)

\* (Mutant of _get_filepathname: the timestamp is the time of the call.)
_get_filepathname_now(info) ==
    LET dirpath == IF info.final = None THEN join(info.initial, "logs")
                   ELSE info.final[1]
        basename_ext == info.module_basename \o "_" \o strftime(now)
                        \o ".log"
    IN  join(dirpath, basename_ext)

\* _ExecInfo._get_filepathname.
_get_filepathname(info) ==
    LET dirpath == IF info.final = None THEN join(info.initial, "logs")
                   ELSE info.final[1]
        basename_ext == info.module_basename \o "_" \o strftime(info.start)
                        \o ".log"
    IN  join(dirpath, basename_ext)

(***************************************************************************)
(* Messages.  A message is a record with its kind: the header and the      *)
(* footer carry the values their lines interpolate, a banner and a         *)
(* caller's text carry their lines.                                        *)
(***************************************************************************)
\* A text is the sequence of its lines, the parts between its newlines:
\* '' is one empty line.  A line is a string, except a title, which is the
\* sequence of its characters (and has no newline), since get changes them.
EmptyText == <<"">>

LowerCase ==
    <<"a", "b", "c", "d", "e", "f", "g", "h", "i", "j", "k", "l", "m",
      "n", "o", "p", "q", "r", "s", "t", "u", "v", "w", "x", "y", "z">>

UpperCase ==
    <<"A", "B", "C", "D", "E", "F", "G", "H", "I", "J", "K", "L", "M",
      "N", "O", "P", "Q", "R", "S", "T", "U", "V", "W", "X", "Y", "Z">>

\* str.upper on a sequence of ASCII characters.
upper(chars) ==
    [i \in DOMAIN chars |->
        IF \E k \in DOMAIN LowerCase : LowerCase[k] = chars[i]
        THEN UpperCase[CHOOSE k \in DOMAIN LowerCase : LowerCase[k] = chars[i]]
        ELSE chars[i]]

Trailer == "TRACING INFORMATION APPEARS BELOW:"

\* (Mutant of ExceptionMessageFormatted.get: the title is not changed to
\* upper case.)
ExceptionMessageFormatted_get_as_is(title, details, suggestions) ==
    LET message_1 == <<title>>
        message_2 == IF details # EmptyText
                     THEN message_1 \o <<"DETAILS:">> \o details \o <<"">>
                     ELSE message_1
        message_3 == IF suggestions # EmptyText
                     THEN message_2 \o <<"SUGGESTIONS:">> \o suggestions \o <<"">>
                     ELSE message_2
    IN  message_3 \o <<Trailer>>

\* ExceptionMessageFormatted.get: the lines of the formatted message.  Each
\* piece the code appends ends with a newline, except the trailer.
ExceptionMessageFormatted_get(title, details, suggestions) ==
    LET message_1 == <<upper(title)>>
        message_2 == IF details # EmptyText
                     THEN message_1 \o <<"DETAILS:">> \o details \o <<"">>
                     ELSE message_1
        message_3 == IF suggestions # EmptyText
                     THEN message_2 \o <<"SUGGESTIONS:">> \o suggestions \o <<"">>
                     ELSE message_2
    IN  message_3 \o <<Trailer>>

LogsDirectoryCreated ==
    <<"L", "O", "G", "S", " ", "D", "I", "R", "E", "C", "T", "O", "R", "Y",
      " ", "C", "R", "E", "A", "T", "E", "D">>

\* The notice Log.__post_init__ sends after it created the logs directory.
CreatedNotice(info, logs_dirpathname) ==
    [kind  |-> "banner",
     lines |-> ExceptionMessageFormatted_get(
                   LogsDirectoryCreated,
                   <<"Module uses logging and needs a log directory.",
                     "A directory for logs did not exist in the initial directory.",
                     "Therefore, the logger created the logs directory.">>,
                   EmptyText),
     dir   |-> logs_dirpathname]

\* Log._get_header (the user, system, version and arguments lines are
\* facts of the environment the model leaves out).
_get_header(info) ==
    [kind  |-> "header",
     start |-> info.start,
     log   |-> _get_filepathname(info)]

\* (Mutant of _get_footer: the two notes are exchanged.)
_get_footer_exchanged(info) ==
    [kind    |-> "footer",
     note    |-> IF info.final # None
                 THEN "*** Final log directory not specified. ***"
                 ELSE "Log copied to specified directory.",
     log     |-> _get_filepathname(info),
     end     |-> info.end[1],
     start   |-> info.start,
     elapsed |-> _get_elapsed(info.end[1] - info.start)]

\* Log._get_footer.
_get_footer(info) ==
    [kind    |-> "footer",
     note    |-> IF info.final = None
                 THEN "*** Final log directory not specified. ***"
                 ELSE "Log copied to specified directory.",
     log     |-> _get_filepathname(info),
     end     |-> info.end[1],
     start   |-> info.start,
     elapsed |-> _get_elapsed(info.end[1] - info.start)]

UserMessage == [kind |-> "user", text |-> "Sample message."]

(***************************************************************************)
(* Filters and formatters of Log.setup.                                    *)
(***************************************************************************)
\* A LogRecord that filter_add_cntxt has not seen has no cntxt_flag.
NoFlag == "<no attribute>"

\* filter_fyi, filter_alert and filter_add_cntxt: whether the filter accepts
\* the record, and the record as the filter leaves it.
\* (Mutants: a boundary off by one; a severity missing from the match.)
filter_fyi_le(record) == [ok |-> record.levelno <= WARNING, record |-> record]

filter_alert_gt(record) == [ok |-> record.levelno > WARNING, record |-> record]

filter_add_cntxt_no_warning(record) ==
    LET flag == CASE record.levelname = "DEBUG"    -> "(white circle)"
                  [] record.levelname = "INFO"     -> "(black square)"
                  [] record.levelname = "ERROR"    -> "(red square)"
                  [] record.levelname = "CRITICAL" -> "(red square)(red square)"
                  [] OTHER                         -> ""
    IN  [ok |-> TRUE, record |-> [record EXCEPT !.cntxt_flag = flag]]

filter_fyi(record) == [ok |-> record.levelno < WARNING, record |-> record]

filter_alert(record) == [ok |-> record.levelno >= WARNING, record |-> record]

filter_add_cntxt(record) ==
    LET flag == CASE record.levelname = "DEBUG"    -> "(white circle)"
                  [] record.levelname = "INFO"     -> "(black square)"
                  [] record.levelname = "WARNING"  -> "(orange square)"
                  [] record.levelname = "ERROR"    -> "(red square)"
                  [] record.levelname = "CRITICAL" -> "(red square)(red square)"
                  [] OTHER                         -> ""
    IN  [ok |-> TRUE, record |-> [record EXCEPT !.cntxt_flag = flag]]

RunFilter(name, record) ==
    CASE name = "filter_fyi"       -> filter_fyi(record)
      [] name = "filter_alert"     -> filter_alert(record)
      [] name = "filter_add_cntxt" -> filter_add_cntxt(record)

\* Filterer.filter: the filters in order, up to the first that rejects.
RECURSIVE Filterer_filter(_, _, _)
Filterer_filter(filters, record, j) ==
    IF j > Len(filters) THEN [ok |-> TRUE, record |-> record]
    ELSE LET r == RunFilter(filters[j], record)
         IN  IF r.ok THEN Filterer_filter(filters, r.record, j + 1)
             ELSE [ok |-> FALSE, record |-> r.record]

\* The format templates: those of the file interpolate %(cntxt_flag)s, the
\* alert ones add the thread, process and source lines.
FormatsWithFlag == {"fmt_file_fyi", "fmt_file_alert"}

\* Formatter.format raises when the template names an attribute the record
\* does not have.
FormatRaises(fmt, record) == fmt \in FormatsWithFlag /\ record.cntxt_flag = NoFlag

\* Formatter.format: the rendering of the record by the template.
Format(fmt, record) ==
    [rid       |-> record.rid,
     fmt       |-> fmt,
     flag      |-> IF fmt \in FormatsWithFlag THEN Some(record.cntxt_flag)
                   ELSE None,
     levelname |-> record.levelname,
     message   |-> record.msg]

(***************************************************************************)
(* The logging module: handlers and the root logger.  These operators work *)
(* on the process state w = [dirs, files, console, rootLevel, handlers,    *)
(* emitted].                                                               *)
(***************************************************************************)
World ==
    [dirs |-> dirs, files |-> files, console |-> console,
     rootLevel |-> rootLevel, handlers |-> handlers, emitted |-> emitted]

Becomes(w) ==
    /\ dirs' = w.dirs
    /\ files' = w.files
    /\ console' = w.console
    /\ rootLevel' = w.rootLevel
    /\ handlers' = w.handlers
    /\ emitted' = w.emitted

\* StreamHandler.flush: what the handler's stream buffers reaches the file
\* (opened for append) or sys.stderr.
StreamHandler_flush(w, i) ==
    LET h == w.handlers[i]
    IN  IF h.kind = "file"
        THEN [w EXCEPT !.files[h.path] = @ \o h.buffer,
                       !.handlers[i].buffer = <<>>]
        ELSE [w EXCEPT !.console = @ \o h.buffer,
                       !.handlers[i].buffer = <<>>]

\* StreamHandler.emit: format, write, flush; a record that cannot be
\* formatted is dropped (Handler.handleError).
StreamHandler_emit(w, i, record) ==
    LET h == w.handlers[i]
    IN  IF FormatRaises(h.formatter, record) THEN w
        ELSE StreamHandler_flush(
                 [w EXCEPT !.handlers[i].buffer =
                               Append(@, Format(h.formatter, record))], i)

\* Handler.handle: emit the record if the handler's filters accept it.
Handler_handle(w, i, record) ==
    LET f == Filterer_filter(w.handlers[i].filters, record, 1)
    IN  [w |-> IF f.ok THEN StreamHandler_emit(w, i, f.record) ELSE w,
         record |-> f.record]

\* Logger.callHandlers: every handler whose level the record reaches.
RECURSIVE callHandlers(_, _, _)
callHandlers(w, record, i) ==
    IF i > Len(w.handlers) THEN w
    ELSE IF record.levelno >= w.handlers[i].level
    THEN LET r == Handler_handle(w, i, record)
         IN  callHandlers(r.w, r.record, i + 1)
    ELSE callHandlers(w, record, i + 1)

\* Logger.log on the root logger or on a child of it (a child has no level
\* and no handler of its own and propagates): the record is created if the
\* level is enabled, and handed to the handlers.  via is the Log object
\* the call went through (0 for a module's own child logger), nlogs the
\* number of Log objects constructed by then.
Logger_log(w, levelno, msg, via, nlogs) ==
    IF levelno >= w.rootLevel
    THEN LET record == [rid        |-> Len(w.emitted) + 1,
                        levelno    |-> levelno,
                        levelname  |-> getLevelName(levelno),
                        msg        |-> msg,
                        cntxt_flag |-> NoFlag,
                        via        |-> via,
                        nlogs      |-> nlogs]
         IN  callHandlers([w EXCEPT !.emitted = Append(@, record)], record, 1)
    ELSE w

\* logging.FileHandler(filepathname, mode='a'): the file is opened, and
\* created if it does not exist.
FileHandler(w, filepathname, level, filters, formatter, owner) ==
    [w EXCEPT
        !.files = IF filepathname \in DOMAIN @ THEN @
                  ELSE [q \in DOMAIN @ \cup {filepathname} |->
                           IF q = filepathname THEN <<>> ELSE @[q]],
        !.handlers = Append(@, [kind |-> "file", path |-> filepathname,
                                level |-> level, filters |-> filters,
                                formatter |-> formatter, buffer |-> <<>>,
                                owner |-> owner])]

\* logging.StreamHandler(): a handler on sys.stderr.
StreamHandler(w, level, filters, formatter, owner) ==
    [w EXCEPT
        !.handlers = Append(@, [kind |-> "stderr", path |-> <<>>,
                                level |-> level, filters |-> filters,
                                formatter |-> formatter, buffer |-> <<>>,
                                owner |-> owner])]

\* Log.setup: the root logger's level and the handlers added to it.
setup(w, filepathname, owner) ==
    LET w0 == [w EXCEPT !.rootLevel = DEBUG]
        w1 == IF filepathname = None
              THEN StreamHandler(w0, DEBUG, <<"filter_fyi">>,
                                 "fmt_stderr_fyi", owner)
              ELSE FileHandler(
                       FileHandler(w0, filepathname[1], DEBUG,
                                   <<"filter_fyi", "filter_add_cntxt">>,
                                   "fmt_file_fyi", owner),
                       filepathname[1], WARNING,
                       <<"filter_alert", "filter_add_cntxt">>,
                       "fmt_file_alert", owner)
    IN  StreamHandler(w1, WARNING, <<"filter_alert">>, "fmt_stderr_alert",
                      owner)

\* shutil.copy(src, dst): into dst if dst is a directory, else onto the path
\* dst; the file read is the file on disk.  The result is the process state
\* and the exception raised ("" for none).
shutil_copy(w, src, dst) ==
    LET target == IF dst \in w.dirs THEN join(dst, basename(src)) ELSE dst
    IN  IF target = src
        THEN [w |-> w, raised |-> "SameFileError"]
        ELSE IF target = <<>> \/ (Len(target) > 1 /\ dirname(target) \notin w.dirs)
        THEN [w |-> w, raised |-> "FileNotFoundError"]
        ELSE IF dirname(target) \in ReadOnlyDirs /\ target \notin DOMAIN w.files
        THEN [w |-> w, raised |-> "PermissionError"]
        ELSE [w |-> [w EXCEPT !.files =
                        [q \in DOMAIN @ \cup {target} |->
                            IF q = target THEN @[src] ELSE @[q]]],
              raised |-> ""]

(***************************************************************************)
(* Log                                                                     *)
(***************************************************************************)
Init ==
    /\ now = 0
    /\ dirs = InitialDirs
    /\ files = <<>>
    /\ console = <<>>
    /\ rootLevel = WARNING
    /\ handlers = <<>>
    /\ emitted = <<>>
    /\ sessions = <<>>
    /\ last = [op |-> "start", session |-> 0, arg |-> None, raised |-> ""]

\* (Mutant of initialize: the header is not sent.)
initialize_no_header(w, info, self) ==
    setup(w, Some(_get_filepathname(info)), self)

\* Log.initialize.
initialize(w, info, self) ==
    Logger_log(setup(w, Some(_get_filepathname(info)), self),
               INFO, _get_header(info), self, self)

\* Log(module_filepathname), d microseconds after the last reading of the
\* clock: Log.__post_init__.
Construct(module_filepathname, d) ==
    /\ Len(sessions) < MaxSessions
    /\ now' = now + d
    /\ LET self == Len(sessions) + 1
           info == set_info(module_filepathname, now + d)
           logs_dirpathname == join(info.initial, "logs")
           w == World
       IN  /\ IF logs_dirpathname \notin w.dirs
              THEN Becomes(
                       Logger_log(
                           initialize([w EXCEPT !.dirs = @ \cup {logs_dirpathname}],
                                      info, self),
                           WARNING, CreatedNotice(info, logs_dirpathname),
                           self, self))
              ELSE Becomes(initialize(w, info, self))
           /\ sessions' = Append(sessions, [exec_info |-> info, state |-> "active"])
           /\ last' = [op |-> "Log", session |-> self, arg |-> None, raised |-> ""]

\* The records the caller has sent.
CallerRecords == {i \in DOMAIN emitted : emitted[i].msg.kind = "user"}

\* self._log.log(levelno, message) of the five leveled methods.
LogMethod(self, levelno, op) ==
    /\ sessions[self].state = "active"
    /\ Cardinality(CallerRecords) < MaxEmits
    /\ Becomes(Logger_log(World, levelno, UserMessage, self, Len(sessions)))
    /\ last' = [op |-> op, session |-> self, arg |-> None, raised |-> ""]
    /\ UNCHANGED <<now, sessions>>

\* Log.debug, Log.info, Log.warning, Log.error, Log.critical.
Debug(self) == LogMethod(self, DEBUG, "debug")

Info(self) == LogMethod(self, INFO, "info")

Warning(self) == LogMethod(self, WARNING, "warning")

Error(self) == LogMethod(self, ERROR, "error")

Critical(self) == LogMethod(self, CRITICAL, "critical")

\* log.log(levelno, message) on the child logger of an importable module
\* (USAGE: logging.getLogger().getChild(...)), once a Log exists.
ChildLog(levelno) ==
    /\ sessions # <<>>
    /\ Cardinality(CallerRecords) < MaxEmits
    /\ Becomes(Logger_log(World, levelno, UserMessage, 0, Len(sessions)))
    /\ last' = [op |-> "log", session |-> 0, arg |-> None, raised |-> ""]
    /\ UNCHANGED <<now, sessions>>

\* (Mutants of terminate: the exception of the copy is swallowed; the copy
\* is made before the footer is sent.)
terminate_swallow(w, info, dirpathname, self, nlogs) ==
    LET logfile_pathname == _get_filepathname(info)
        w_1 == Logger_log(w, INFO,
                          _get_footer([info EXCEPT !.final = dirpathname]),
                          self, nlogs)
    IN  IF dirpathname # None
        THEN [w |-> shutil_copy(w_1, logfile_pathname, dirpathname[1]).w,
              raised |-> ""]
        ELSE [w |-> w_1, raised |-> ""]

terminate_copy_first(w, info, dirpathname, self, nlogs) ==
    LET logfile_pathname == _get_filepathname(info)
        c == IF dirpathname # None
             THEN shutil_copy(w, logfile_pathname, dirpathname[1])
             ELSE [w |-> w, raised |-> ""]
    IN  [w |-> Logger_log(c.w, INFO,
                          _get_footer([info EXCEPT !.final = dirpathname]),
                          self, nlogs),
         raised |-> c.raised]

\* (Mutant of terminate: the footer is made before final is set.)
terminate_footer_first(w, info, dirpathname, self, nlogs) ==
    LET logfile_pathname == _get_filepathname(info)
        w_1 == Logger_log(w, INFO, _get_footer(info), self, nlogs)
    IN  IF dirpathname # None
        THEN shutil_copy(w_1, logfile_pathname, dirpathname[1])
        ELSE [w |-> w_1, raised |-> ""]

\* The body of Log.terminate once the end time is set in info: the process
\* state it leaves and the exception it raises ("" for none).
terminate(w, info, dirpathname, self, nlogs) ==
    LET logfile_pathname == _get_filepathname(info)
        w_1 == Logger_log(w, INFO,
                          _get_footer([info EXCEPT !.final = dirpathname]),
                          self, nlogs)
    IN  IF dirpathname # None
        THEN shutil_copy(w_1, logfile_pathname, dirpathname[1])
        ELSE [w |-> w_1, raised |-> ""]

\* Log.terminate(dirpathname), called once per Log, d microseconds after
\* the last reading of the clock.
Terminate(self, dirpathname, d) ==
    /\ sessions[self].state = "active"
    /\ now' = now + d
    /\ \E info \in {[sessions[self].exec_info EXCEPT !.end = Some(now + d)]} :
       \E c \in {terminate(World, info, dirpathname, self, Len(sessions))} :
           /\ Becomes(c.w)
           /\ sessions' = [sessions EXCEPT ![self] =
                              [exec_info |-> [info EXCEPT !.final = dirpathname],
                               state |-> "terminated"]]
           /\ last' = [op |-> "terminate", session |-> self,
                       arg |-> dirpathname, raised |-> c.raised]

\* The arguments of terminate: FinalArguments and the Log's own logs
\* directory.
TerminateArguments(self) ==
    FinalArguments \cup {Some(join(sessions[self].exec_info.initial, "logs"))}

\* One process that constructs one Log, as the USAGE of the module says.
Next ==
    \/ \E module_filepathname \in ModuleFiles, d \in ClockSteps :
           sessions = <<>> /\ Construct(module_filepathname, d)
    \/ \E self \in DOMAIN sessions : Debug(self)
    \/ \E self \in DOMAIN sessions : Info(self)
    \/ \E self \in DOMAIN sessions : Warning(self)
    \/ \E self \in DOMAIN sessions : Error(self)
    \/ \E self \in DOMAIN sessions : Critical(self)
    \/ \E levelno \in OtherLevels : ChildLog(levelno)
    \/ \E self \in DOMAIN sessions, d \in ClockSteps :
           \E dirpathname \in TerminateArguments(self) :
               Terminate(self, dirpathname, d)

Spec == Init /\ [][Next]_vars

\* One process that constructs up to MaxSessions Logs.
NextShared ==
    \/ \E module_filepathname \in ModuleFiles, d \in ClockSteps :
           Construct(module_filepathname, d)
    \/ \E self \in DOMAIN sessions : Info(self)
    \/ \E self \in DOMAIN sessions : Warning(self)
    \/ \E self \in DOMAIN sessions :
           \E dirpathname \in {None, Some(<<"F">>)} :
               Terminate(self, dirpathname, 0)

SpecShared == Init /\ [][NextShared]_vars

\* The durations of a run, in microseconds: every combination of these
\* minutes, seconds, milliseconds and microseconds.
ElapsedDurations ==
    {((m * 60 + sec) * 1000 + ms) * 1000 + us :
        m \in {0, 2}, sec \in {0, 5, 59}, ms \in {0, 456, 457, 999},
        us \in {0, 1, 249, 700, 999}}

\* One Log, terminated after any of the durations.
NextElapsed ==
    \/ sessions = <<>> /\ Construct(<<"A", "app.py">>, 0)
    \/ \E d \in ElapsedDurations : sessions # <<>> /\ Terminate(1, None, d)

SpecElapsed == Init /\ [][NextElapsed]_vars

(***************************************************************************)
(* Properties.                                                             *)
(***************************************************************************)
\* The stream handler i writes to.
Stream(i) == IF handlers[i].kind = "file" THEN files[handlers[i].path] ELSE console

\* The places of the renderings of record number rid in a stream.
Renderings(stream, rid) == {j \in DOMAIN stream : stream[j].rid = rid}

\* Handler i wrote a rendering of the record.
Delivered(record, i) ==
    \E j \in Renderings(Stream(i), record.rid) :
        Stream(i)[j].fmt = handlers[i].formatter

FileHandlers == {i \in DOMAIN handlers : handlers[i].kind = "file"}

\* The log file of Log number self, where _get_filepathname put it when the
\* Log was constructed.
LogFile(self) ==
    _get_filepathname([sessions[self].exec_info EXCEPT !.final = None])

NamedLevels == {"DEBUG", "INFO", "WARNING", "ERROR", "CRITICAL"}

\* The last record created.
LastRecord == emitted[Len(emitted)]

\* C1: with one Log, exactly one of filter_fyi and filter_alert accepts a
\* record of any level, named or not; a handler wrote a record iff the
\* record reaches the handler's level and the handler's predicate accepts
\* it; and every record created is in the log file exactly once, written by
\* exactly one of the two file handlers.
C1_ExactlyOneFileDestination ==
    /\ \A levelno \in {DEBUG, INFO, WARNING, ERROR, CRITICAL} \cup OtherLevels :
           filter_fyi([levelno |-> levelno]).ok
               # filter_alert([levelno |-> levelno]).ok
    /\ \A k \in DOMAIN emitted :
           LET record == emitted[k]
           IN  record.nlogs = 1 =>
                   /\ filter_fyi(record).ok # filter_alert(record).ok
                   /\ \A i \in DOMAIN handlers :
                          Delivered(record, i) <=>
                              /\ record.levelno >= handlers[i].level
                              /\ RunFilter(handlers[i].filters[1], record).ok
                   /\ Cardinality({i \in FileHandlers : Delivered(record, i)}) = 1
                   /\ Cardinality(Renderings(files[LogFile(1)], record.rid)) = 1

\* A record of an unnamed level and a DEBUG record are both in the file.
C1_Witness ==
    /\ Len(sessions) = 1
    /\ \E k \in DOMAIN emitted :
           /\ emitted[k].levelno = 35
           /\ Renderings(files[LogFile(1)], emitted[k].rid) # {}
    /\ \E k \in DOMAIN emitted :
           /\ emitted[k].levelno = DEBUG
           /\ Renderings(files[LogFile(1)], emitted[k].rid) # {}

\* C2: with one Log, after debug() or info() the record is in the log file
\* once, written by the FYI file handler, and not on the console; after
\* warning(), error() or critical() the record is in the log file once,
\* written by the ALERT file handler, and on the console once, written by
\* the ALERT console handler.
C2_RoutingOfMethods ==
    /\ last.op \in {"debug", "info"} =>
           /\ LastRecord.msg.kind = "user"
           /\ \A j \in Renderings(files[LogFile(last.session)], LastRecord.rid) :
                  files[LogFile(last.session)][j].fmt = "fmt_file_fyi"
           /\ Cardinality(Renderings(files[LogFile(last.session)], LastRecord.rid)) = 1
           /\ Renderings(console, LastRecord.rid) = {}
    /\ last.op \in {"warning", "error", "critical"} =>
           /\ LastRecord.msg.kind = "user"
           /\ \A j \in Renderings(files[LogFile(last.session)], LastRecord.rid) :
                  files[LogFile(last.session)][j].fmt = "fmt_file_alert"
           /\ Cardinality(Renderings(files[LogFile(last.session)], LastRecord.rid)) = 1
           /\ \A j \in Renderings(console, LastRecord.rid) :
                  console[j].fmt = "fmt_stderr_alert"
           /\ Cardinality(Renderings(console, LastRecord.rid)) = 1

\* debug() was called after warning(): the console holds the warning.
C2_Witness ==
    /\ last.op = "debug"
    /\ \E k \in DOMAIN emitted :
           /\ emitted[k].msg.kind = "user"
           /\ emitted[k].levelname = "WARNING"
           /\ Renderings(console, emitted[k].rid) # {}

\* C3: every record created is rendered in the log file; every rendering in
\* a file carries the glyph filter_add_cntxt stamped on the record (so the
\* record was stamped before it was formatted), the glyph is a function of
\* the severity, the five named severities have five different non-empty
\* glyphs and every other severity the empty one; no rendering on the
\* console has a glyph.
C3_GlyphInFileOnly ==
    /\ \A k \in DOMAIN emitted :
           \E i \in FileHandlers : Delivered(emitted[k], i)
    /\ \A path \in DOMAIN files :
           \A j \in DOMAIN files[path] :
               LET x == files[path][j]
               IN  /\ x.flag # None
                   /\ x.flag[1] # NoFlag
                   /\ x.flag[1] = "" <=> x.levelname \notin NamedLevels
                   /\ \A path2 \in DOMAIN files :
                          \A j2 \in DOMAIN files[path2] :
                              (files[path2][j2].flag = x.flag)
                                  <=> (files[path2][j2].levelname = x.levelname
                                       \/ {files[path2][j2].levelname, x.levelname}
                                              \cap NamedLevels = {})
    /\ \A j \in DOMAIN console : console[j].flag = None

\* The file holds renderings of three different severities, one of them
\* unnamed, and the console a rendering.
C3_Witness ==
    /\ console # <<>>
    /\ \E path \in DOMAIN files :
           /\ \E j \in DOMAIN files[path] : files[path][j].levelname = "WARNING"
           /\ \E j \in DOMAIN files[path] : files[path][j].levelname = "CRITICAL"
           /\ \E j \in DOMAIN files[path] : files[path][j].levelname \notin NamedLevels

\* The records created by the step, oldest first.
NewRecords == SubSeq(emitted', Len(emitted) + 1, Len(emitted'))

\* C4: a step that constructs a Log does not raise, leaves the logs
\* directory of the module's directory existing and the log file existing
\* at <directory>/logs/<basename>_<start>.log, and sends the header first;
\* if the logs directory did not exist before the step, the step creates
\* it, the header is the first rendering of the log file, and exactly one
\* more record is sent, after the header: the WARNING notice that names the
\* directory created; if the logs directory existed, the header is the only
\* record of the step, and no WARNING is sent.
C4_LogsDirectoryCreated ==
    [][(last'.op = "Log" /\ Len(sessions') = Len(sessions) + 1) =>
          LET self == Len(sessions')
              info == sessions'[self].exec_info
              logs == join(info.initial, "logs")
              path == join(logs, info.module_basename \o "_"
                                 \o ToString(info.start \div MicrosPerSecond)
                                 \o ".log")
          IN  /\ last'.raised = ""
              /\ logs \in dirs'
              /\ dirs' = dirs \cup {logs}
              /\ path \in DOMAIN files'
              /\ Len(NewRecords) >= 1
              /\ NewRecords[1].msg.kind = "header"
              /\ NewRecords[1].levelno = INFO
              /\ logs \notin dirs =>
                     /\ Len(NewRecords) = 2
                     /\ NewRecords[2].levelno = WARNING
                     /\ NewRecords[2].msg.kind = "banner"
                     /\ NewRecords[2].msg.lines[1] = LogsDirectoryCreated
                     /\ NewRecords[2].msg.dir = logs
                     /\ Len(files'[path]) = 2
                     /\ files'[path][1].rid = NewRecords[1].rid
                     /\ files'[path][1].message.kind = "header"
                     /\ files'[path][2].rid = NewRecords[2].rid
                     /\ Cardinality(Renderings(console', NewRecords[2].rid)) = 1
              /\ logs \in dirs =>
                     /\ Len(NewRecords) = 1
                     /\ console' = console
    ]_vars

\* A Log was constructed for a module of directory A, which had no logs
\* directory: the directory exists and the notice is on the console.
C4_Witness ==
    /\ last.op = "Log"
    /\ <<"A", "logs">> \in dirs
    /\ Len(emitted) = 2
    /\ emitted[2].levelno = WARNING
    /\ Len(console) = 1

C6_NoFinalDirectory ==
    (last.op = "terminate" /\ last.arg = None) =>
        LET info == sessions[last.session].exec_info
            orig == LogFile(last.session)
        IN  /\ last.raised = ""
            /\ info.final = None
            /\ LastRecord.msg.kind = "footer"
            /\ LastRecord.msg.note = "*** Final log directory not specified. ***"
            /\ files[orig][Len(files[orig])].message = LastRecord.msg
            /\ DOMAIN files = {orig}
            /\ dirname(orig) = join(info.initial, "logs")
            /\ dirs = InitialDirs \cup {dirname(orig)}

\* terminate() without a final directory ended a Log that has user records.
C6_Witness ==
    /\ last.op = "terminate"
    /\ last.arg = None
    /\ CallerRecords # {}
    /\ sessions[last.session].state = "terminated"

\* C7: when terminate was called with None or with '', it returns, the
\* footer holds the note that the final directory was not specified, and
\* the only file is the log file in its logs directory.
C7_EmptyArgumentIsNone ==
    (last.op = "terminate" /\ last.arg \in {None, Some(<<>>)}) =>
        /\ last.raised = ""
        /\ LastRecord.msg.note = "*** Final log directory not specified. ***"
        /\ DOMAIN files = {LogFile(last.session)}

\* The copy into dst cannot succeed: dst is '', dst does not exist and
\* neither does its parent, dst is a directory that cannot be written, or
\* dst is the directory the log file is in.
CopyMustFail(self, dst) ==
    \/ dst = <<>>
    \/ dst \notin dirs /\ Len(dst) > 1 /\ dirname(dst) \notin dirs
    \/ dst \in ReadOnlyDirs
    \/ dst = dirname(LogFile(self))

\* C8: when terminate(dirpathname) was called with a directory the copy
\* into which cannot succeed, terminate raised the error of the copy, the
\* footer was sent once and is the last rendering of the log file at its
\* original path, and no other file exists.
C8_CopyFailurePropagates ==
    (/\ last.op = "terminate"
     /\ last.arg # None
     /\ CopyMustFail(last.session, last.arg[1])) =>
        LET orig == LogFile(last.session)
        IN  /\ last.raised \in {"FileNotFoundError", "PermissionError",
                                "SameFileError"}
            /\ LastRecord.msg.kind = "footer"
            /\ Cardinality({k \in DOMAIN emitted :
                               emitted[k].msg.kind = "footer"}) = 1
            /\ orig \in DOMAIN files
            /\ files[orig] # <<>>
            /\ files[orig][Len(files[orig])].rid = LastRecord.rid
            /\ files[orig][Len(files[orig])].message.kind = "footer"
            /\ DOMAIN files = {orig}

\* terminate raised PermissionError for the read-only directory, and the
\* footer is in the log file.
C8_Witness ==
    /\ last.op = "terminate"
    /\ last.arg = Some(<<"RO">>)
    /\ last.raised = "PermissionError"
    /\ LastRecord.msg.kind = "footer"
    /\ Renderings(files[LogFile(last.session)], LastRecord.rid) # {}

\* C9: with several Logs in one process, each with a log file of its own,
\* a record sent through a Log is written only by the handlers that Log
\* added, is in that Log's file exactly once, on the console at most once,
\* and in no other Log's file.
C9_NoSharedDestination ==
    (\A self, other \in DOMAIN sessions :
         self # other => LogFile(self) # LogFile(other)) =>
        \A k \in DOMAIN emitted :
            LET record == emitted[k]
            IN  record.via >= 1 =>
                    /\ \A i \in DOMAIN handlers :
                           Delivered(record, i) =>
                               handlers[i].owner = record.via
                    /\ Cardinality(Renderings(files[LogFile(record.via)],
                                              record.rid)) = 1
                    /\ Cardinality(Renderings(console, record.rid)) <= 1
                    /\ \A other \in DOMAIN sessions :
                           other # record.via =>
                               Renderings(files[LogFile(other)],
                                          record.rid) = {}

\* C10: after terminate, the elapsed time of the footer is the duration
\* end - start decomposed into minutes, seconds below 60, milliseconds
\* below 1000 and microseconds below 1000, and 125.4567 s gives
\* 2m 5s 456ms 700.
C10_ElapsedDecomposition ==
    last.op = "terminate" =>
        LET info == sessions[last.session].exec_info
            duration == info.end[1] - info.start
            elapsed == LastRecord.msg.elapsed
        IN  /\ elapsed.m * 60000000 + elapsed.s * 1000000
                   + elapsed.ms * 1000 + elapsed.us = duration
            /\ elapsed.s \in 0..59
            /\ elapsed.ms \in 0..999
            /\ elapsed.us \in 0..999
            /\ duration = 125456700 =>
                   elapsed = [m |-> 2, s |-> 5, ms |-> 456, us |-> 700]

\* C11: in every state and for every Log, the name of the resolved log
\* path is <module_basename>_<start>.log, whatever the final directory is;
\* while the final directory is None the resolved path is
\* <initial>/logs/<that name>, the path the Log's file handlers were opened
\* on when it was constructed and the path its header reports; the start
\* time is not after the clock, and no step changes the start time, the
\* initial directory or the module basename of a Log.
C11_PathFixedByStart ==
    /\ [](\A self \in DOMAIN sessions :
              LET info == sessions[self].exec_info
                  stamp == info.module_basename \o "_"
                           \o ToString(info.start \div MicrosPerSecond)
                           \o ".log"
              IN  /\ info.start <= now
                  /\ basename(_get_filepathname(info)) = stamp
                  /\ info.final = None =>
                         /\ _get_filepathname(info)
                                = info.initial \o <<"logs", stamp>>
                         /\ \A i \in FileHandlers :
                                handlers[i].owner = self =>
                                    handlers[i].path = _get_filepathname(info)
                         /\ \A k \in DOMAIN emitted :
                                (emitted[k].via = self
                                 /\ emitted[k].msg.kind = "header") =>
                                    emitted[k].msg.log = _get_filepathname(info))
    /\ [][\A self \in DOMAIN sessions :
              /\ sessions'[self].exec_info.start = sessions[self].exec_info.start
              /\ sessions'[self].exec_info.initial
                     = sessions[self].exec_info.initial
              /\ sessions'[self].exec_info.module_basename
                     = sessions[self].exec_info.module_basename]_vars

\* A Log with user records was terminated without a final directory a
\* second after it started.
C11_Witness ==
    /\ last.op = "terminate"
    /\ CallerRecords # {}
    /\ sessions[last.session].exec_info.final = None
    /\ now >= sessions[last.session].exec_info.start + MicrosPerSecond

(***************************************************************************)
(* The message helpers, used as the test script uses them.                 *)
(***************************************************************************)
\* The titles, details and suggestions of a caller's exception message.
Titles ==
    {<<>>,
     <<"E", "r", "r", "o", "r">>,
     <<"U", "N", "E", "X", "P", "E", "C", "T", "E", "D">>,
     <<"d", "i", "s", "k", " ", "9", "9", "%">>}

DetailsTexts ==
    {EmptyText,
     <<"An unexpected error has occurred.">>,
     <<"First line.", "Second line.">>}

SuggestionsTexts ==
    {EmptyText,
     <<"Please check your inputs and try again. Or, contact the developer.">>,
     <<"Ends with a newline.", "">>}

\* msg = ExceptionMessageFormatted(); msg.title = ...; msg.details = ...;
\* msg.suggestions = ...; log.critical(msg.get()), once per run.
ReportException(self, title, details, suggestions) ==
    /\ sessions[self].state = "active"
    /\ \A k \in DOMAIN emitted : emitted[k].msg.kind # "exception"
    /\ Becomes(Logger_log(World, CRITICAL,
                          [kind  |-> "exception",
                           lines |-> ExceptionMessageFormatted_get(
                                         title, details, suggestions)],
                          self, Len(sessions)))
    /\ last' = [op |-> "critical", session |-> self,
                arg |-> Some(<<title, details, suggestions>>), raised |-> ""]
    /\ UNCHANGED <<now, sessions>>

\* The values of the variables a caller reports: the text of type(value),
\* the names of the classes of type(value).__mro__, the lines of
\* str(value) and the lines of pp.pformat(value) (indent 4, width 160).
PyValue(type, mro, str, pformat) ==
    [type |-> type, mro |-> mro, str |-> str, pformat |-> pformat]

Values ==
    {PyValue("<class 'bool'>", <<"bool", "int", "object">>,
             <<"True">>, <<"True">>),
     PyValue("<class 'bytes'>", <<"bytes", "object">>,
             <<"b'ab'">>, <<"b'ab'">>),
     PyValue("<class 'int'>", <<"int", "object">>, <<"30">>, <<"30">>),
     PyValue("<class 'float'>", <<"float", "object">>, <<"1.5">>, <<"1.5">>),
     PyValue("<class 'str'>", <<"str", "object">>, <<"text">>, <<"'text'">>),
     PyValue("<class 'str'>", <<"str", "object">>,
             <<"two", "lines">>, <<"'two\\nlines'">>),
     PyValue("<class 'list'>", <<"list", "object">>,
             <<"[1, 2]">>, <<"[1, 2]">>),
     PyValue("<class 'tuple'>", <<"tuple", "object">>,
             <<"(1, 2)">>, <<"(1, 2)">>),
     PyValue("<class 'NoneType'>", <<"NoneType", "object">>,
             <<"None">>, <<"None">>),
     PyValue("<class '__main__.Point'>", <<"Point", "tuple", "object">>,
             <<"Point(x=1, y=2)">>, <<"Point(x=1, y=2)">>),
     PyValue("<class 'dict'>", <<"dict", "object">>,
             <<"{'a': 1}">>, <<"{'a': 1}">>),
     PyValue("<class 'set'>", <<"set", "object">>, <<"{1}">>, <<"{1}">>),
     PyValue("<class 'dict'>", <<"dict", "object">>,
             <<"{'k1': 'vvvvvvvvvvvvvvvvvvvvvvvvvvvvvvvvvvvvvvvvvvvvvvvvvvvvvvvvvvvvvvvvvvvvvvvvvvvvvvvv', 'k2': 'wwwwwwwwwwwwwwwwwwwwwwwwwwwwwwwwwwwwwwwwwwwwwwwwwwwwwwwwwwwwwwwwwwwwwwwwwwwwwwww'}">>,
             <<"{   'k1': 'vvvvvvvvvvvvvvvvvvvvvvvvvvvvvvvvvvvvvvvvvvvvvvvvvvvvvvvvvvvvvvvvvvvvvvvvvvvvvvvv',",
               "    'k2': 'wwwwwwwwwwwwwwwwwwwwwwwwwwwwwwwwwwwwwwwwwwwwwwwwwwwwwwwwwwwwwwwwwwwwwwwwwwwwwwww'}">>)}

Names == {"x", "sample_variable"}

\* isinstance(value, classinfo).
isinstance(value, classinfo) ==
    \E i \in DOMAIN value.mro : value.mro[i] \in classinfo

InlineTypes ==
    {"bool", "bytes", "int", "float", "str", "list", "tuple", "NoneType"}

VarValPrefix == "(magnifying glass)VarVal(magnifying glass) "

\* (Mutant of variable_value_message.get: the exact type is tested.)
variable_value_message_get_exact(name, value) ==
    IF value.mro[1] \in InlineTypes
    THEN <<VarValPrefix \o name \o " (" \o value.type \o "): "
               \o Head(value.str)>> \o Tail(value.str)
    ELSE <<VarValPrefix \o name \o " (" \o value.type \o "):">>
             \o value.pformat

\* variable_value_message.get: the lines of the formatted message.
variable_value_message_get(name, value) ==
    IF isinstance(value, InlineTypes)
    THEN <<VarValPrefix \o name \o " (" \o value.type \o "): "
               \o Head(value.str)>> \o Tail(value.str)
    ELSE <<VarValPrefix \o name \o " (" \o value.type \o "):">>
             \o value.pformat

\* log.info(variable_value_message.get(name, value)), once per run.
ReportVariable(self, name, value) ==
    /\ sessions[self].state = "active"
    /\ \A k \in DOMAIN emitted : emitted[k].msg.kind # "varval"
    /\ Becomes(Logger_log(World, INFO,
                          [kind  |-> "varval",
                           lines |-> variable_value_message_get(name, value)],
                          self, Len(sessions)))
    /\ last' = [op |-> "info", session |-> self,
                arg |-> Some(<<name, value>>), raised |-> ""]
    /\ UNCHANGED <<now, sessions>>

\* One Log whose caller reports a variable, reports an exception and
\* terminates, as the test script does.
NextMessages ==
    \/ \E module_filepathname \in ModuleFiles :
           sessions = <<>> /\ Construct(module_filepathname, 0)
    \/ \E self \in DOMAIN sessions :
           \E name \in Names, value \in Values :
               ReportVariable(self, name, value)
    \/ \E self \in DOMAIN sessions :
           \E title \in Titles, details \in DetailsTexts,
              suggestions \in SuggestionsTexts :
               ReportException(self, title, details, suggestions)
    \/ \E self \in DOMAIN sessions : Terminate(self, None, 0)

SpecMessages == Init /\ [][NextMessages]_vars

\* The line is the title with every lower-case letter replaced by its
\* capital and every other character kept.
IsUpperCaseOf(line, title) ==
    /\ Len(line) = Len(title)
    /\ \A i \in DOMAIN title :
           /\ \A k \in DOMAIN LowerCase : line[i] # LowerCase[k]
           /\ \A k \in DOMAIN LowerCase :
                  title[i] = LowerCase[k] => line[i] = UpperCase[k]
           /\ (\A k \in DOMAIN LowerCase : title[i] # LowerCase[k]) =>
                  line[i] = title[i]

\* The places after the title line where the message has the line.
LinesEqual(lines, line) == {i \in 2..Len(lines) : lines[i] = line}

\* C12 as stated: a message with only a title has exactly three lines, the
\* title in upper case, a blank line and the trailer; a DETAILS header
\* appears iff details is not '', a SUGGESTIONS header iff suggestions is
\* not '', and the last line is the trailer.
C12_TitleOnlyThreeLines ==
    (last.op = "critical" /\ last.arg # None) =>
        LET title == last.arg[1][1]
            details == last.arg[1][2]
            suggestions == last.arg[1][3]
            lines == LastRecord.msg.lines
        IN  /\ (details = EmptyText /\ suggestions = EmptyText) =>
                   /\ Len(lines) = 3
                   /\ IsUpperCaseOf(lines[1], title)
                   /\ lines[2] = ""
                   /\ lines[3] = Trailer
            /\ (LinesEqual(lines, "DETAILS:") # {}) <=> (details # EmptyText)
            /\ (LinesEqual(lines, "SUGGESTIONS:") # {})
                   <=> (suggestions # EmptyText)
            /\ lines[Len(lines)] = Trailer

\* C12 amended: a message with only a title has exactly two lines, the
\* title in upper case and the trailer, with no blank line between them;
\* in general the first line is the title in upper case, a DETAILS section
\* (the header, the lines of details, a blank line) appears iff details is
\* not '', a SUGGESTIONS section (the header, the lines of suggestions, a
\* blank line) appears after it iff suggestions is not '', and the last
\* line is the trailer; the message has no other line.
C12_TitleOnlyTwoLines ==
    (last.op = "critical" /\ last.arg # None) =>
        LET title == last.arg[1][1]
            details == last.arg[1][2]
            suggestions == last.arg[1][3]
            lines == LastRecord.msg.lines
            n_details == IF details # EmptyText THEN Len(details) + 2 ELSE 0
            n_suggestions == IF suggestions # EmptyText
                             THEN Len(suggestions) + 2 ELSE 0
        IN  /\ LastRecord.msg.kind = "exception"
            /\ IsUpperCaseOf(lines[1], title)
            /\ Len(lines) = 2 + n_details + n_suggestions
            /\ lines[Len(lines)] = Trailer
            /\ (details = EmptyText /\ suggestions = EmptyText) =>
                   lines = <<lines[1], Trailer>>
            /\ (LinesEqual(lines, "DETAILS:") # {}) <=> (details # EmptyText)
            /\ (LinesEqual(lines, "SUGGESTIONS:") # {})
                   <=> (suggestions # EmptyText)
            /\ details # EmptyText =>
                   /\ lines[2] = "DETAILS:"
                   /\ SubSeq(lines, 3, 2 + Len(details)) = details
                   /\ lines[n_details + 1] = ""
            /\ suggestions # EmptyText =>
                   /\ lines[n_details + 2] = "SUGGESTIONS:"
                   /\ SubSeq(lines, n_details + 3,
                             n_details + 2 + Len(suggestions)) = suggestions
                   /\ lines[Len(lines) - 1] = ""

\* A message with a title in lower case and nothing else was sent: it has
\* two lines and is in the log file and on the console.
C12_Witness ==
    /\ last.op = "critical"
    /\ last.arg = Some(<<<<"E", "r", "r", "o", "r">>, EmptyText, EmptyText>>)
    /\ Len(LastRecord.msg.lines) = 2
    /\ LastRecord.msg.lines[1] = <<"E", "R", "R", "O", "R">>
    /\ Renderings(console, LastRecord.rid) # {}
    /\ Renderings(files[LogFile(last.session)], LastRecord.rid) # {}

\* The types the claim lists for the inline form.
ClaimedInline(value) ==
    \E i \in DOMAIN value.mro :
        value.mro[i] \in {"bool", "bytes", "int", "float", "str", "list",
                          "tuple", "NoneType"}

\* C13 as stated: the message is the single line `name (type): value`
\* exactly when the value is a bool, bytes, int, float, str, list, tuple or
\* None; for every other value it has several lines, the first holding the
\* name and the type and the following ones the pretty-printed value.
C13_InlineIsSingleLine ==
    (last.op = "info" /\ last.arg # None) =>
        LET name == last.arg[1][1]
            value == last.arg[1][2]
            lines == LastRecord.msg.lines
            header == VarValPrefix \o name \o " (" \o value.type \o ")"
        IN  /\ (Len(lines) = 1) <=> ClaimedInline(value)
            /\ ClaimedInline(value) =>
                   lines = <<header \o ": " \o value.str[1]>>
            /\ ~ClaimedInline(value) =>
                   /\ lines[1] = header \o ":"
                   /\ SubSeq(lines, 2, Len(lines)) = value.pformat

\* C13 amended: the message has the inline form `name (type): value`, the
\* text of the value following the name and the type on the first line (one
\* line when the text of the value has no line break, else the rest of the
\* text on the following lines), exactly when the value is a bool, bytes,
\* int, float, str, list, tuple or None; for every other value the first
\* line holds the name and the type only, and the following lines are the
\* pretty-printed value.
C13_InlineForm ==
    (last.op = "info" /\ last.arg # None) =>
        LET name == last.arg[1][1]
            value == last.arg[1][2]
            lines == LastRecord.msg.lines
            header == VarValPrefix \o name \o " (" \o value.type \o ")"
        IN  /\ LastRecord.msg.kind = "varval"
            /\ (lines[1] # header \o ":") <=> ClaimedInline(value)
            /\ ClaimedInline(value) =>
                   /\ lines[1] = header \o ": " \o value.str[1]
                   /\ Len(lines) = Len(value.str)
                   /\ SubSeq(lines, 2, Len(lines))
                          = SubSeq(value.str, 2, Len(value.str))
            /\ ~ClaimedInline(value) =>
                   /\ lines[1] = header \o ":"
                   /\ Len(lines) >= 2
                   /\ SubSeq(lines, 2, Len(lines)) = value.pformat

\* A tuple of a subclass was reported inline, and the message is in the log
\* file only.
C13_Witness ==
    /\ last.op = "info"
    /\ last.arg # None
    /\ last.arg[1][2].mro = <<"Point", "tuple", "object">>
    /\ Len(LastRecord.msg.lines) = 1
    /\ Renderings(files[LogFile(last.session)], LastRecord.rid) # {}
    /\ Renderings(console, LastRecord.rid) = {}

\* The header record of a Log.
HeaderOf(self) ==
    emitted[CHOOSE k \in DOMAIN emitted :
                emitted[k].via = self /\ emitted[k].msg.kind = "header"]

\* C14 as stated, for the calls of terminate that return: whatever the
\* argument, the LOG path of the footer is the LOG path of the header,
\* which is the path the Log's file handlers were opened on and every
\* record is written to.
C14_FooterPathIsHeaderPath ==
    (last.op = "terminate" /\ last.raised = "") =>
        /\ LastRecord.msg.kind = "footer"
        /\ LastRecord.msg.log = HeaderOf(last.session).msg.log
        /\ \A i \in FileHandlers :
               handlers[i].path = HeaderOf(last.session).msg.log
        /\ \A k \in DOMAIN emitted :
               Renderings(files[HeaderOf(last.session).msg.log],
                          emitted[k].rid) # {}

\* C14 amended: after terminate, the LOG path of the header is the path the
\* Log's file handlers were opened on and every record, the footer
\* included, is written to; the LOG path of the footer is that path when
\* terminate was given no final directory, and otherwise the final
\* directory joined with the file name of the header's path, where the
\* copy is when the final directory exists and the copy succeeded.
C14_FooterPathIsFinalPath ==
    last.op = "terminate" =>
        LET header == HeaderOf(last.session)
            footer == LastRecord
        IN  /\ footer.msg.kind = "footer"
            /\ header.msg.log \in DOMAIN files
            /\ \A i \in FileHandlers : handlers[i].path = header.msg.log
            /\ \A k \in DOMAIN emitted :
                   Renderings(files[header.msg.log], emitted[k].rid) # {}
            /\ last.arg = None => footer.msg.log = header.msg.log
            /\ last.arg # None =>
                   /\ footer.msg.log
                          = join(last.arg[1], basename(header.msg.log))
                   /\ (last.raised = "" /\ last.arg[1] \in dirs) =>
                          /\ footer.msg.log \in DOMAIN files
                          /\ files[footer.msg.log] = files[header.msg.log]

\* terminate copied the log into directory F: the footer names the copy,
\* the header the file in the logs directory.
C14_Witness ==
    /\ last.op = "terminate"
    /\ last.arg = Some(<<"F">>)
    /\ last.raised = ""
    /\ CallerRecords # {}
    /\ dirname(LastRecord.msg.log) = <<"F">>
    /\ dirname(HeaderOf(last.session).msg.log)
           = join(sessions[last.session].exec_info.initial, "logs")
    /\ LastRecord.msg.log \in DOMAIN files

====
